---------------------------- MODULE Spec2Model ----------------------------
(***************************************************************************)
(* Model of the Polymarket market-making bot.                              *)
(*                                                                         *)
(*   src/slippage.py  OrderBookAnalyzer : order-book snapshot, metrics and *)
(*                    the favourability rule cascade (pure operators).     *)
(*   src/reward.py    TradingBot        : the control loop main_loop and   *)
(*                    the order life cycle (a state machine).              *)
(*                                                                         *)
(* Numbers.  Prices are integers in units of 0.00001 (so 0.02 is 2000),    *)
(* sizes are integers.  Every quotient the code computes in floating point *)
(* is kept as an exact fraction <<n, d>> with d > 0, and compared by cross *)
(* multiplication; NaN and +inf are explicit ([nan |-> ...], [inf |-> ...])*)
(* and compare as IEEE-754 does (every comparison with NaN is false).      *)
(* Binary rounding of the float operations is not modelled.                *)
(***************************************************************************)
EXTENDS Integers, Sequences, FiniteSets, TLC

(***************************************************************************)
(* Exact fractions.                                                        *)
(***************************************************************************)
RLt(a, b) == a[1] * b[2] < b[1] * a[2]
RLe(a, b) == a[1] * b[2] <= b[1] * a[2]
RAdd(a, b) == <<a[1] * b[2] + b[1] * a[2], a[2] * b[2]>>
RZero == <<0, 1>>

(***************************************************************************)
(* OrderBookAnalyzer.__init__ defaults (src/slippage.py 14-18) and the     *)
(* literals of the rule cascade.                                           *)
(***************************************************************************)
imbalance_threshold == <<3, 1>>
volume_threshold == <<2, 5>>
spread_multiplier == <<3, 2>>
DefaultPriceLevels == 3
ConcentrationLimit == <<7, 10>>
BalancedSpread == 2000
BalancedLow == <<4, 5>>
BalancedHigh == <<6, 5>>
TightImbalance == <<3, 2>>
TightSpread == 1500
WideSpread == 2000
WideDeviation == <<1, 2>>

(***************************************************************************)
(* A raw order book as the exchange returns it: err is a failed fetch (or  *)
(* a level that float() rejects), bids and asks are sequences of levels    *)
(* [price, size] in the order the exchange lists them.                     *)
(***************************************************************************)
Level(p, s) == [price |-> p, size |-> s]
RawBook(e, b, a) == [err |-> e, bids |-> b, asks |-> a]
ErrorBook == RawBook(TRUE, <<>>, <<>>)

Row(l, t) == [price |-> l.price, size |-> l.size, type |-> t]

RECURSIVE TagRows(_, _)
TagRows(levels, t) ==
    IF levels = <<>> THEN <<>>
    ELSE <<Row(Head(levels), t)>> \o TagRows(Tail(levels), t)

\* insert row r into the sequence s, which is sorted by price (ascending when
\* asc, else descending), after the rows of equal price
RECURSIVE InsertByPrice(_, _, _)
InsertByPrice(r, s, asc) ==
    IF s = <<>> THEN <<r>>
    ELSE IF (asc /\ r.price < Head(s).price) \/ (~asc /\ r.price > Head(s).price)
         THEN <<r>> \o s
         ELSE <<Head(s)>> \o InsertByPrice(r, Tail(s), asc)

\* DataFrame.sort_values('price', ascending=asc)
RECURSIVE SortByPrice(_, _)
SortByPrice(s, asc) ==
    IF s = <<>> THEN <<>>
    ELSE InsertByPrice(s[Len(s)], SortByPrice(SubSeq(s, 1, Len(s) - 1), asc), asc)

RECURSIVE SumSizes(_)
SumSizes(s) == IF s = <<>> THEN 0 ELSE Head(s).size + SumSizes(Tail(s))

RowsOfType(rows, t) == SelectSeq(rows, LAMBDA r : r.type = t)

\* groupby('type')['size'].cumsum() over the rows in their current order
CumulativeSize(rows, i) ==
    SumSizes(RowsOfType(SubSeq(rows, 1, i), rows[i].type))

WithCumulative(rows) ==
    [i \in 1..Len(rows) |->
        [price |-> rows[i].price, size |-> rows[i].size, type |-> rows[i].type,
         cumulative_size |-> CumulativeSize(rows, i)]]

NoneFrame == [none |-> TRUE, rows |-> <<>>]

\* OrderBookAnalyzer.get_orderbook: None when the fetch raises, and when both
\* sides are empty (the concatenation of two column-less frames has no 'price'
\* column, so sort_values raises KeyError); otherwise the frame of all rows
\* sorted by ascending price with the per-type running sum of sizes.
get_orderbook(book) ==
    IF book.err THEN NoneFrame
    ELSE IF book.bids = <<>> /\ book.asks = <<>> THEN NoneFrame
    ELSE [none |-> FALSE,
          rows |-> WithCumulative(
                     SortByPrice(TagRows(book.bids, "bid") \o TagRows(book.asks, "ask"),
                                 TRUE))]

(***************************************************************************)
(* Metrics.                                                                *)
(***************************************************************************)
NaN == [nan |-> TRUE, v |-> 0]
Num(x) == [nan |-> FALSE, v |-> x]

RECURSIVE MaxPrice(_)
MaxPrice(s) ==
    IF s = <<>> THEN NaN
    ELSE LET m == MaxPrice(Tail(s))
         IN IF m.nan \/ Head(s).price > m.v THEN Num(Head(s).price) ELSE m

RECURSIVE MinPrice(_)
MinPrice(s) ==
    IF s = <<>> THEN NaN
    ELSE LET m == MinPrice(Tail(s))
         IN IF m.nan \/ Head(s).price < m.v THEN Num(Head(s).price) ELSE m

Sizes(s) == [i \in 1..Len(s) |-> s[i].size]

\* the loop of _calculate_price_pressure over volumes[k], volumes[k+1]
\* (k is the code's i + 1)
RECURSIVE PressureSum(_, _)
PressureSum(volumes, k) ==
    IF k >= Len(volumes) THEN RZero
    ELSE LET rest == PressureSum(volumes, k + 1)
         IN IF volumes[k + 1] > 0
            THEN RAdd(<<volumes[k], volumes[k + 1] * k>>, rest)
            ELSE rest

\* _calculate_price_pressure without its first test: the pressure of the
\* levels there are
_calculate_price_pressure_NoShortSide(df, ascending, price_levels) ==
    LET df_sorted == SortByPrice(df, ascending)
        n == IF Len(df) < price_levels THEN Len(df) ELSE price_levels
        volumes == Sizes(SubSeq(df_sorted, 1, n))
        pressure == PressureSum(volumes, 1)
    IN IF Len(volumes) - 1 = 0
       THEN [raised |-> TRUE, value |-> RZero]
       ELSE IF Len(volumes) - 1 < 0
       THEN [raised |-> FALSE, value |-> RZero]
       ELSE [raised |-> FALSE,
             value |-> <<pressure[1], pressure[2] * (Len(volumes) - 1)>>]

\* OrderBookAnalyzer._calculate_price_pressure.  raised: the final division
\* is 0 / 0 on Python ints (ZeroDivisionError) when a single volume is taken.
_calculate_price_pressure(df, ascending, price_levels) ==
    IF Len(df) < price_levels THEN [raised |-> FALSE, value |-> RZero]
    ELSE LET df_sorted == SortByPrice(df, ascending)
             volumes == Sizes(SubSeq(df_sorted, 1, price_levels))
             pressure == PressureSum(volumes, 1)
         IN IF Len(volumes) - 1 = 0
            THEN [raised |-> TRUE, value |-> RZero]
            ELSE IF Len(volumes) - 1 < 0
            THEN [raised |-> FALSE, value |-> RZero]
            ELSE [raised |-> FALSE,
                  value |-> <<pressure[1], pressure[2] * (Len(volumes) - 1)>>]

\* bids[bids['price'] >= bids['price'].max() - near_spread_threshold]: empty
\* when the spread is NaN, every comparison with NaN being false
NearBids(bids, best, spread) ==
    IF best.nan \/ spread.nan THEN <<>>
    ELSE SelectSeq(bids, LAMBDA r :
            r.price * spread_multiplier[2]
              >= best.v * spread_multiplier[2] - spread.v * spread_multiplier[1])

\* asks[asks['price'] <= asks['price'].min() + near_spread_threshold]
NearAsks(asks, best, spread) ==
    IF best.nan \/ spread.nan THEN <<>>
    ELSE SelectSeq(asks, LAMBDA r :
            r.price * spread_multiplier[2]
              <= best.v * spread_multiplier[2] + spread.v * spread_multiplier[1])

\* OrderBookAnalyzer.calculate_metrics on the rows of a frame.  bids and asks
\* keep the frame's order (ascending price), so bids.iloc[0] is bids[1].
calculate_metrics(rows, price_levels) ==
    LET bids == RowsOfType(rows, "bid")
        asks == RowsOfType(rows, "ask")
        best_bid_price == MaxPrice(bids)
        best_ask_price == MinPrice(asks)
        spread == IF best_bid_price.nan \/ best_ask_price.nan THEN NaN
                  ELSE Num(best_ask_price.v - best_bid_price.v)
        mid_price == IF best_bid_price.nan \/ best_ask_price.nan THEN NaN
                     ELSE Num(best_ask_price.v + best_bid_price.v)
        bid_volume == SumSizes(NearBids(bids, best_bid_price, spread))
        ask_volume == SumSizes(NearAsks(asks, best_ask_price, spread))
        bid_pressure == _calculate_price_pressure(bids, FALSE, price_levels)
        ask_pressure == _calculate_price_pressure(asks, TRUE, price_levels)
    IN [raised |-> bid_pressure.raised \/ ask_pressure.raised,
        spread |-> spread,
        mid_price_x2 |-> mid_price,
        volume_imbalance |->
            IF ask_volume > 0 THEN [inf |-> FALSE, q |-> <<bid_volume, ask_volume>>]
            ELSE [inf |-> TRUE, q |-> RZero],
        bid_pressure |-> bid_pressure.value,
        ask_pressure |-> ask_pressure.value,
        best_bid_concentration |->
            IF bid_volume > 0 THEN <<bids[1].size, bid_volume>> ELSE RZero,
        best_ask_concentration |->
            IF ask_volume > 0 THEN <<asks[1].size, ask_volume>> ELSE RZero,
        best_bid_price |-> best_bid_price,
        best_ask_price |-> best_ask_price,
        bid_volume |-> bid_volume,
        ask_volume |-> ask_volume]

\* comparisons of volume_imbalance (a fraction or +inf) with a fraction
ImbGt(imb, r) == imb.inf \/ RLt(r, imb.q)
ImbLt(imb, r) == ~imb.inf /\ RLt(imb.q, r)
ImbGe(imb, r) == imb.inf \/ RLe(r, imb.q)
ImbLe(imb, r) == ~imb.inf /\ RLe(imb.q, r)
\* abs(volume_imbalance - 1) > r
ImbAwayFromOne(imb, r) ==
    imb.inf \/ RLt(r, <<IF imb.q[1] >= imb.q[2] THEN imb.q[1] - imb.q[2]
                                                 ELSE imb.q[2] - imb.q[1],
                        imb.q[2]>>)
\* comparisons of the spread (a number or NaN) with a number
SpreadLt(spread, x) == ~spread.nan /\ spread.v < x
SpreadGt(spread, x) == ~spread.nan /\ spread.v > x

Rule1(m) ==
    /\ ImbGt(m.volume_imbalance, imbalance_threshold)
    /\ \/ RLt(ConcentrationLimit, m.best_bid_concentration)
       \/ RLt(volume_threshold, m.bid_pressure)
Rule2(m) ==
    /\ SpreadLt(m.spread, BalancedSpread)
    /\ ImbGe(m.volume_imbalance, BalancedLow)
    /\ ImbLe(m.volume_imbalance, BalancedHigh)
    /\ RLt(volume_threshold, m.bid_pressure)
Rule3(m) ==
    /\ ImbGt(m.volume_imbalance, TightImbalance)
    /\ SpreadLt(m.spread, TightSpread)
Rule4(m) ==
    /\ SpreadGt(m.spread, WideSpread)
    /\ ImbAwayFromOne(m.volume_imbalance, WideDeviation)
Rule5(m) ==
    /\ ImbLt(m.volume_imbalance, <<imbalance_threshold[2], imbalance_threshold[1]>>)
    /\ \/ RLt(ConcentrationLimit, m.best_ask_concentration)
       \/ RLt(volume_threshold, m.ask_pressure)

Verdict(f, r) == [is_favorable |-> f, reason |-> r]

\* is_market_favorable testing the wide-spread rule before the others
is_market_favorable_WideSpreadFirst(rows, price_levels) ==
    LET metrics == calculate_metrics(rows, price_levels)
    IN IF metrics.raised THEN Verdict(FALSE, "Erreur d'analyse")
       ELSE IF Rule4(metrics) THEN Verdict(FALSE, "Spread large avec desequilibre")
       ELSE IF Rule1(metrics) THEN Verdict(TRUE, "Forte pression d'achat")
       ELSE IF Rule2(metrics) THEN Verdict(TRUE, "Marche equilibre avec pression d'achat")
       ELSE IF Rule3(metrics) THEN Verdict(TRUE, "Fort desequilibre acheteur avec spread serre")
       ELSE IF Rule5(metrics) THEN Verdict(FALSE, "Forte pression de vente")
       ELSE Verdict(FALSE, "Conditions neutres")

\* OrderBookAnalyzer.is_market_favorable: the try block turns an exception of
\* calculate_metrics into (False, "Erreur d'analyse: ...")
is_market_favorable(rows, price_levels) ==
    LET metrics == calculate_metrics(rows, price_levels)
    IN IF metrics.raised THEN Verdict(FALSE, "Erreur d'analyse")
       ELSE IF Rule1(metrics) THEN Verdict(TRUE, "Forte pression d'achat")
       ELSE IF Rule2(metrics) THEN Verdict(TRUE, "Marche equilibre avec pression d'achat")
       ELSE IF Rule3(metrics) THEN Verdict(TRUE, "Fort desequilibre acheteur avec spread serre")
       ELSE IF Rule4(metrics) THEN Verdict(FALSE, "Spread large avec desequilibre")
       ELSE IF Rule5(metrics) THEN Verdict(FALSE, "Forte pression de vente")
       ELSE Verdict(FALSE, "Conditions neutres")

Status(f, r, hasMetrics, raised) ==
    [is_favorable |-> f, reason |-> r, has_metrics |-> hasMetrics, raised |-> raised]

\* get_market_status without its own try block
get_market_status_NoCatch(book, price_levels) ==
    LET orderbook_df == get_orderbook(book)
    IN IF orderbook_df.none
       THEN Status(FALSE, "Impossible de recuperer l'orderbook", FALSE, FALSE)
       ELSE LET v == is_market_favorable(orderbook_df.rows, price_levels)
                metrics == calculate_metrics(orderbook_df.rows, price_levels)
            IN Status(v.is_favorable, v.reason, TRUE, metrics.raised)

\* OrderBookAnalyzer.get_market_status.  calculate_metrics runs a second time
\* after is_market_favorable, outside that method's try block; what it raises
\* there is caught by get_market_status's own try block.  raised is what
\* reaches the caller.
get_market_status(book, price_levels) ==
    LET orderbook_df == get_orderbook(book)
    IN IF orderbook_df.none
       THEN Status(FALSE, "Impossible de recuperer l'orderbook", FALSE, FALSE)
       ELSE LET v == is_market_favorable(orderbook_df.rows, price_levels)
                metrics == calculate_metrics(orderbook_df.rows, price_levels)
            IN IF metrics.raised THEN Status(FALSE, "Erreur", FALSE, FALSE)
               ELSE Status(v.is_favorable, v.reason, TRUE, FALSE)

ErrorReasons == {"Impossible de recuperer l'orderbook", "Erreur d'analyse", "Erreur"}


(***************************************************************************)
(* TradingBot (src/reward.py).                                             *)
(*                                                                         *)
(* None is NoPrice, the empty order id "" is EmptyId, order ids are        *)
(* 1, 2, ... in the order the exchange issues them.  The clock now stands   *)
(* for time.time(); calls take no time, only time.sleep advances it.       *)
(***************************************************************************)
NoPrice == -1
EmptyId == 0
HeartbeatInterval == 60
CycleSleep == 1
ErrorBackoff == 10
\* config.json trading_parameters: size (notional budget) and spread_slip
ConfigSize == 100
ConfigSpreadSlip == 1000
\* the clock reading at the first cycle and the number of orders the exchange
\* accepts in a run
StartTime == 1000
MaxOrders == 2
\* how long the run lasts (no cycle starts later): Spec, SpecClock
MaxElapsed == 3
RunLength == 125

VARIABLES
    pc,             \* position of main_loop
    is_position, order_id_ask, order_id_bid, ask_price, bid_price, act_price,
    new_price,      \* main_loop's local
    verdict,        \* what get_market_status() returned in this cycle
    last_heartbeat, \* main_loop's local
    now,            \* the clock
    orders,         \* the exchange: orders[id] = [side, price, shares, state]
    trace,          \* calls and notifications of the current cycle, in order
    start,          \* the bot's fields when the current cycle began
    anchor,         \* the trade price both fetches of the cycle returned in which
                    \* the last quote pair (ask and bid) was placed, else NoPrice
    refreshed,      \* update_prices() of this cycle: "none", "true", "false"
    fetched,        \* the book update_prices() got in this cycle
    episode,        \* ids of the orders the last placement step submitted
    heartbeats,     \* elapsed time of every heartbeat sent
    failures,       \* has a cycle ended in the catch-all handler
    interrupted,    \* has KeyboardInterrupt been delivered
    book, price_levels, snapshot, metrics, status, epc   \* the evaluator on its own

loopVars == <<pc, is_position, order_id_ask, order_id_bid, ask_price, bid_price,
              act_price, new_price, verdict, last_heartbeat, now, orders, trace,
              start, anchor, refreshed, fetched, episode, heartbeats, failures,
              interrupted>>
evalVars == <<book, price_levels, snapshot, metrics, status, epc>>
vars == <<loopVars, evalVars>>

Elapsed == now - StartTime

Notify(kind) == [op |-> "notify", what |-> kind, side |-> "", id |-> EmptyId, ok |-> TRUE]
Call(name, side, id, ok) == [op |-> name, what |-> "", side |-> side, id |-> id, ok |-> ok]

\* round(float(price), 4): to the nearest multiple of 0.0001, halves to even
Round4(p) ==
    LET q == p \div 10
        r == p % 10
    IN IF r < 5 THEN q * 10
       ELSE IF r > 5 THEN (q + 1) * 10
       ELSE IF q % 2 = 0 THEN q * 10 ELSE (q + 1) * 10

\* a sizer that answers 0 shares when there is no trade price
process_shares_size_ZeroShares(p) ==
    IF p = NoPrice THEN [raised |-> FALSE, shares |-> 0]
    ELSE [raised |-> FALSE, shares |-> (ConfigSize * 100000) \div (p + ConfigSpreadSlip)]

\* TradingBot.process_shares_size with the price get_last_trade_price returned;
\* int() truncates.  float(None) raises TypeError.
process_shares_size(p) ==
    IF p = NoPrice THEN [raised |-> TRUE, shares |-> 0]
    ELSE [raised |-> FALSE, shares |-> (ConfigSize * 100000) \div (p + ConfigSpreadSlip)]

\* The bot's fields and the exchange, as the value the methods below transform.
Bot == [is_position |-> is_position, order_id_ask |-> order_id_ask,
        order_id_bid |-> order_id_bid, ask_price |-> ask_price,
        bid_price |-> bid_price, orders |-> orders, trace |-> trace]

Fields(b) == [is_position |-> b.is_position, order_id_ask |-> b.order_id_ask,
              order_id_bid |-> b.order_id_bid, ask_price |-> b.ask_price,
              bid_price |-> b.bid_price]

Resting(os, id) == id \in 1..Len(os) /\ os[id].state = "resting"

\* TradingBot.cancel_order(side).  ok: client.cancel returned; otherwise it
\* raised.  The exchange removes the order when the call succeeds on a
\* resting order.
cancel_order(b, side, ok) ==
    LET order_id == IF side = "ask" THEN b.order_id_ask ELSE b.order_id_bid
    IN [b EXCEPT
          !.orders = IF ok /\ Resting(b.orders, order_id)
                     THEN [b.orders EXCEPT ![order_id].state = "cancelled"]
                     ELSE b.orders,
          !.trace = b.trace \o <<Call("cancel", side, order_id, ok),
                                 Notify(IF ok THEN "cancelled" ELSE "cancel_error")>>]

\* a cancel loop that a failed cancellation leaves
CancelBoth_StopOnFailure(b, okAsk, okBid) ==
    IF okAsk
    THEN [cancel_order(cancel_order(b, "ask", okAsk), "bid", okBid)
             EXCEPT !.is_position = FALSE]
    ELSE [cancel_order(b, "ask", okAsk) EXCEPT !.is_position = FALSE]

\* for side in ['ask', 'bid']: self.cancel_order(side); self.is_position = False
CancelBoth(b, okAsk, okBid) ==
    [cancel_order(cancel_order(b, "ask", okAsk), "bid", okBid)
        EXCEPT !.is_position = FALSE]

\* TradingBot.order_pusher(action, side).  p: what get_last_trade_price returned
\* inside process_shares_size; ok: create_order and post_order returned an
\* order id.  Any exception is caught, notified, and leaves the id unchanged.
\* In the trace, ok of get_last_trade_price is "returned a price" and ok of
\* process_shares_size is "returned" (FALSE: it raised).
order_pusher(b, side, p, ok) ==
    LET price == IF side = "ask" THEN b.ask_price ELSE b.bid_price
        sized == process_shares_size(p)
        order_id == Len(b.orders) + 1
        sizing == <<Call("get_last_trade_price", side, EmptyId, p # NoPrice),
                    Call("process_shares_size", side, EmptyId, ~sized.raised)>>
    IN IF sized.raised
       THEN [b EXCEPT !.trace = b.trace \o sizing \o <<Notify("order_error")>>]
       ELSE IF ~ok
       THEN [b EXCEPT !.trace = b.trace \o sizing \o
                                 <<Call("post_order", side, EmptyId, FALSE),
                                   Notify("order_error")>>]
       ELSE [b EXCEPT
               !.orders = Append(b.orders,
                                 [side |-> side, price |-> price,
                                  shares |-> sized.shares, state |-> "resting"]),
               !.order_id_ask = IF side = "ask" THEN order_id ELSE b.order_id_ask,
               !.order_id_bid = IF side = "bid" THEN order_id ELSE b.order_id_bid,
               !.trace = b.trace \o sizing \o
                             <<Call("post_order", side, order_id, TRUE),
                               Notify("order_placed")>>]

\* update_prices quoting at the best level of each side
update_prices_BestLevel(b, ob) ==
    IF ob.err THEN [ok |-> FALSE, bot |-> b]
    ELSE IF ob.bids = <<>> \/ ob.asks = <<>> THEN [ok |-> FALSE, bot |-> b]
    ELSE [ok |-> TRUE,
          bot |-> [b EXCEPT !.bid_price = Round4(SortByPrice(ob.bids, FALSE)[1].price),
                            !.ask_price = Round4(SortByPrice(ob.asks, TRUE)[1].price)]]

\* TradingBot.update_prices with the book the client returned.  bid_price is
\* assigned before the ask side is indexed.
update_prices(b, ob) ==
    IF ob.err THEN [ok |-> FALSE, bot |-> b]
    ELSE IF ob.bids = <<>> \/ ob.asks = <<>> THEN [ok |-> FALSE, bot |-> b]
    ELSE IF Len(ob.bids) < 2 THEN [ok |-> FALSE, bot |-> b]
    ELSE LET b1 == [b EXCEPT !.bid_price =
                        Round4(SortByPrice(ob.bids, FALSE)[2].price)]
         IN IF Len(ob.asks) < 2 THEN [ok |-> FALSE, bot |-> b1]
            ELSE [ok |-> TRUE,
                  bot |-> [b1 EXCEPT !.ask_price =
                              Round4(SortByPrice(ob.asks, TRUE)[2].price)]]

Store(b) ==
    /\ is_position' = b.is_position
    /\ order_id_ask' = b.order_id_ask
    /\ order_id_bid' = b.order_id_bid
    /\ ask_price' = b.ask_price
    /\ bid_price' = b.bid_price
    /\ orders' = b.orders
    /\ trace' = b.trace


(***************************************************************************)
(* What the collaborators can answer.                                      *)
(***************************************************************************)
\* the scenario of the specification: neutral, hence unfavourable
NeutralBook ==
    RawBook(FALSE, <<Level(50000, 100), Level(49000, 50), Level(48000, 20)>>,
                   <<Level(52000, 10), Level(53000, 40), Level(54000, 60)>>)
\* tight spread and buyer imbalance: favourable by the third rule
TightBook ==
    RawBook(FALSE, <<Level(48000, 20), Level(49000, 50), Level(50000, 100)>>,
                   <<Level(53000, 60), Level(52000, 40), Level(51000, 10)>>)
\* two bid levels and a single ask level
ShortAskBook ==
    RawBook(FALSE, <<Level(47000, 30), Level(46000, 30)>>, <<Level(52000, 10)>>)

TradePrices == {NoPrice, 50000, 51000}
EvalBooks == {NeutralBook, TightBook, ErrorBook}
UpdateBooks == {TightBook, ShortAskBook, ErrorBook}
Outcomes == BOOLEAN

\* one steady price, the exchange always answering
SteadyPrices == {50000}
SteadyEvalBooks == {NeutralBook, TightBook}
SteadyUpdateBooks == {TightBook}
SteadyOutcomes == {TRUE}

(***************************************************************************)
(* main_loop, one action per stretch between two blocking calls.           *)
(***************************************************************************)
\* line 159: if now - last_heartbeat >= 60
HeartbeatDue_Strict(t, last) == t - last > HeartbeatInterval
HeartbeatDue(t, last) == t - last >= HeartbeatInterval

\* lines 158-161: the heartbeat test, at the top of a cycle
Heartbeat(horizon) ==
    /\ pc = "top"
    /\ Elapsed < horizon
    /\ IF HeartbeatDue(now, last_heartbeat)
       THEN /\ trace' = <<Notify("heartbeat")>>
            /\ last_heartbeat' = now
            /\ heartbeats' = Append(heartbeats, Elapsed)
       ELSE /\ trace' = <<>>
            /\ UNCHANGED <<last_heartbeat, heartbeats>>
    /\ start' = Fields(Bot)
    /\ refreshed' = "none"
    /\ fetched' = ErrorBook
    /\ pc' = "price"
    /\ UNCHANGED <<is_position, order_id_ask, order_id_bid, ask_price, bid_price,
                   act_price, new_price, verdict, now, orders, anchor, episode, failures,
                   interrupted, evalVars>>

\* line 163: self.act_price = self.get_last_trade_price()
FetchActPrice(prices) ==
    /\ pc = "price"
    /\ \E p \in prices : act_price' = p
    /\ pc' = "status"
    /\ UNCHANGED <<is_position, order_id_ask, order_id_bid, ask_price, bid_price,
                   new_price, verdict, last_heartbeat, now, orders, trace, start,
                   anchor, episode, refreshed, fetched, heartbeats, failures, interrupted, evalVars>>

\* line 165: if not self.get_market_status() ... else ...
Branch_Inverted(v) == IF v THEN "unfavorable" ELSE "favorable"
Branch(v) == IF v THEN "favorable" ELSE "unfavorable"

\* line 165 with lines 134-135: OrderBookAnalyzer() may raise (configuration
\* file or environment variable missing), which nothing below main_loop's
\* handler catches; otherwise the verdict of the book the analyzer fetches.
GetMarketStatus(books) ==
    /\ pc = "status"
    /\ \/ /\ pc' = "except"
          /\ UNCHANGED verdict
       \/ \E ob \in books :
             /\ verdict' = get_market_status(ob, DefaultPriceLevels).is_favorable
             /\ pc' = Branch(verdict')
    /\ UNCHANGED <<is_position, order_id_ask, order_id_bid, ask_price, bid_price,
                   act_price, new_price, last_heartbeat, now, orders, trace, start,
                   anchor, episode, refreshed, fetched, heartbeats, failures, interrupted, evalVars>>

\* lines 166-170
Unfavorable(outcomes) ==
    /\ pc = "unfavorable"
    /\ LET b == [Bot EXCEPT !.trace = trace \o <<Notify("unfavorable")>>]
       IN IF is_position
          THEN \E okAsk \in outcomes, okBid \in outcomes :
                  Store(CancelBoth(b, okAsk, okBid))
          ELSE Store(b)
    /\ pc' = "sleep"
    /\ UNCHANGED <<act_price, new_price, verdict, last_heartbeat, now, start, anchor, episode,
                   refreshed, fetched, heartbeats, failures, interrupted, evalVars>>

\* lines 172-177
Favorable(prices, outcomes) ==
    /\ pc = "favorable"
    /\ \E p \in prices :
          /\ new_price' = p
          /\ IF p # act_price /\ is_position
             THEN LET b == [Bot EXCEPT !.trace = trace \o <<Notify("drift")>>]
                  IN \E okAsk \in outcomes, okBid \in outcomes :
                        Store(CancelBoth(b, okAsk, okBid))
             ELSE Store(Bot)
    /\ pc' = "place"
    /\ UNCHANGED <<act_price, verdict, last_heartbeat, now, start, anchor, episode,
                   refreshed, fetched, heartbeats, failures, interrupted, evalVars>>

\* the answers post_order can give: it issues no more than MaxOrders ids
SubmitOutcomes(b, outcomes) ==
    IF Len(b.orders) < MaxOrders THEN outcomes ELSE {FALSE}

\* line 179: the left operand of "not self.is_position and self.update_prices()"
NotInPosition_Always(b) == TRUE
NotInPosition(b) == ~b.is_position

\* lines 179-182
Place(books, prices, outcomes) ==
    /\ pc = "place"
    /\ IF ~NotInPosition(Bot)
       THEN /\ Store(Bot)
            /\ UNCHANGED <<refreshed, fetched, anchor, episode>>
       ELSE \E ob \in books :
              LET u == update_prices(Bot, ob)
              IN IF ~u.ok
                 THEN /\ Store(u.bot)
                      /\ refreshed' = "false"
                      /\ fetched' = ob
                      /\ UNCHANGED <<anchor, episode>>
                 ELSE \E pAsk \in prices, pBid \in prices :
                      \E okAsk \in SubmitOutcomes(u.bot, outcomes) :
                        LET b1 == order_pusher(u.bot, "ask", pAsk, okAsk)
                        IN \E okBid \in SubmitOutcomes(b1, outcomes) :
                           LET b2 == order_pusher(b1, "bid", pBid, okBid)
                           IN /\ Store([b2 EXCEPT !.is_position = TRUE])
                              /\ refreshed' = "true"
                              /\ fetched' = ob
                              /\ episode' = Len(orders) + 1 .. Len(b2.orders)
                              /\ anchor' = IF /\ Len(b2.orders) = Len(orders) + 2
                                              /\ new_price = act_price
                                           THEN act_price ELSE NoPrice
    /\ pc' = "sleep"
    /\ UNCHANGED <<act_price, new_price, verdict, last_heartbeat, now, start,
                   heartbeats, failures, interrupted, evalVars>>

\* line 184: time.sleep(1)
Sleep ==
    /\ pc = "sleep"
    /\ now' = now + CycleSleep
    /\ pc' = "top"
    /\ UNCHANGED <<is_position, order_id_ask, order_id_bid, ask_price, bid_price,
                   act_price, new_price, verdict, last_heartbeat, orders, trace,
                   start, anchor, episode, refreshed, fetched, heartbeats, failures, interrupted,
                   evalVars>>

\* a handler that sleeps as a good cycle does
Except_ShortSleep ==
    /\ pc = "except"
    /\ trace' = trace \o <<Notify("loop_error")>>
    /\ now' = now + CycleSleep
    /\ failures' = TRUE
    /\ pc' = "top"
    /\ UNCHANGED <<is_position, order_id_ask, order_id_bid, ask_price, bid_price,
                   act_price, new_price, verdict, last_heartbeat, orders, start,
                   anchor, episode, refreshed, fetched, heartbeats, interrupted, evalVars>>

\* lines 186-188: except Exception: notify, time.sleep(10), next cycle
Except ==
    /\ pc = "except"
    /\ trace' = trace \o <<Notify("loop_error")>>
    /\ now' = now + ErrorBackoff
    /\ failures' = TRUE
    /\ pc' = "top"
    /\ UNCHANGED <<is_position, order_id_ask, order_id_bid, ask_price, bid_price,
                   act_price, new_price, verdict, last_heartbeat, orders, start,
                   anchor, episode, refreshed, fetched, heartbeats, interrupted, evalVars>>

\* lines 195-199: KeyboardInterrupt is no Exception; it ends main_loop wherever
\* it arrives
Interrupt ==
    /\ pc # "terminated"
    /\ pc' = "terminated"
    /\ interrupted' = TRUE
    /\ UNCHANGED <<is_position, order_id_ask, order_id_bid, ask_price, bid_price,
                   act_price, new_price, verdict, last_heartbeat, now, orders, trace,
                   start, anchor, episode, refreshed, fetched, heartbeats, failures, evalVars>>

\* _init_trading_state (lines 64-73) and the locals of main_loop (line 152),
\* after the initial update_prices() of line 153
InitLoop(books) ==
    /\ pc = "top"
    /\ is_position = FALSE
    /\ order_id_ask = EmptyId
    /\ order_id_bid = EmptyId
    /\ \E ob \in books :
          LET u == update_prices([is_position |-> FALSE, order_id_ask |-> EmptyId,
                                  order_id_bid |-> EmptyId, ask_price |-> 0,
                                  bid_price |-> 0, orders |-> <<>>, trace |-> <<>>],
                                 ob)
          IN ask_price = u.bot.ask_price /\ bid_price = u.bot.bid_price
    /\ act_price = 0
    /\ new_price = NoPrice
    /\ verdict = FALSE
    /\ last_heartbeat = 0
    /\ now = StartTime
    /\ orders = <<>>
    /\ trace = <<>>
    /\ start = [is_position |-> FALSE, order_id_ask |-> EmptyId,
                order_id_bid |-> EmptyId, ask_price |-> ask_price,
                bid_price |-> bid_price]
    /\ anchor = NoPrice
    /\ refreshed = "none"
    /\ fetched = ErrorBook
    /\ episode = {}
    /\ heartbeats = <<>>
    /\ failures = FALSE
    /\ interrupted = FALSE

EvalIdle ==
    /\ book = ErrorBook
    /\ price_levels = DefaultPriceLevels
    /\ snapshot = NoneFrame
    /\ metrics = calculate_metrics(<<>>, DefaultPriceLevels)
    /\ status = Status(FALSE, "", FALSE, FALSE)
    /\ epc = "idle"

Init == InitLoop(UpdateBooks) /\ EvalIdle

Next ==
    \/ Heartbeat(MaxElapsed)
    \/ FetchActPrice(TradePrices)
    \/ GetMarketStatus(EvalBooks)
    \/ Unfavorable(Outcomes)
    \/ Favorable(TradePrices, Outcomes)
    \/ Place(UpdateBooks, TradePrices, Outcomes)
    \/ Sleep
    \/ Except
    \/ Interrupt

Spec == Init /\ [][Next]_vars

(***************************************************************************)
(* The same loop over a run of RunLength seconds on a steady market: one   *)
(* trade price, every exchange call answered.  A cycle can still fail in   *)
(* GetMarketStatus.                                                        *)
(***************************************************************************)
InitClock == InitLoop(SteadyUpdateBooks) /\ EvalIdle

NextClock ==
    \/ Heartbeat(RunLength)
    \/ FetchActPrice(SteadyPrices)
    \/ GetMarketStatus(SteadyEvalBooks)
    \/ Unfavorable(SteadyOutcomes)
    \/ Favorable(SteadyPrices, SteadyOutcomes)
    \/ Place(SteadyUpdateBooks, SteadyPrices, SteadyOutcomes)
    \/ Sleep
    \/ Except
    \/ Interrupt

SpecClock == InitClock /\ [][NextClock]_vars


(***************************************************************************)
(* The evaluator on its own: a book and a price_levels setting are drawn,  *)
(* get_orderbook builds the snapshot, get_market_status gives the verdict. *)
(***************************************************************************)
MaxLevels == 3
MaxPriceLevels == 3
BidPrices == {48000, 49000, 50000}
AskPrices == {49000, 51000, 53000}
LevelSizes == {10, 100}

DistinctPrices(s) == \A i, j \in 1..Len(s) : i # j => s[i].price # s[j].price

\* the level lists of one side, in any order, no price twice
LevelSeqs(prices) ==
    UNION {{s \in [1..n -> [price : prices, size : LevelSizes]] : DistinctPrices(s)}
           : n \in 0..MaxLevels}

Books ==
    {ErrorBook} \cup
    {RawBook(FALSE, b, a) : b \in LevelSeqs(BidPrices), a \in LevelSeqs(AskPrices)}

InitEval ==
    /\ InitLoop({ErrorBook})
    /\ book \in Books
    /\ price_levels \in 1..MaxPriceLevels
    /\ snapshot = NoneFrame
    /\ metrics = calculate_metrics(<<>>, DefaultPriceLevels)
    /\ status = Status(FALSE, "", FALSE, FALSE)
    /\ epc = "input"

EvalGetOrderbook ==
    /\ epc = "input"
    /\ snapshot' = get_orderbook(book)
    /\ epc' = "snapshot"
    /\ UNCHANGED <<book, price_levels, metrics, status, loopVars>>

\* calculate_metrics on the snapshot (it is not called on None)
EvalCalculateMetrics ==
    /\ epc = "snapshot"
    /\ ~snapshot.none
    /\ metrics' = calculate_metrics(snapshot.rows, price_levels)
    /\ epc' = "metrics"
    /\ UNCHANGED <<book, price_levels, snapshot, status, loopVars>>

EvalGetMarketStatus ==
    /\ epc = "metrics" \/ (epc = "snapshot" /\ snapshot.none)
    /\ status' = get_market_status(book, price_levels)
    /\ epc' = "done"
    /\ UNCHANGED <<book, price_levels, snapshot, metrics, loopVars>>

NextEval == EvalGetOrderbook \/ EvalCalculateMetrics \/ EvalGetMarketStatus

SpecEval == InitEval /\ [][NextEval]_vars

(***************************************************************************)
(* Properties.                                                             *)
(***************************************************************************)
IsNotify(e, kind) == e.op = "notify" /\ e.what = kind
IsCall(e, name) == e.op = name
HasCall(tr, name) == \E i \in 1..Len(tr) : IsCall(tr[i], name)
\* order_pusher ran: it always ends in one of these two notifications
Pushed(tr) ==
    \E i \in 1..Len(tr) : IsNotify(tr[i], "order_placed") \/ IsNotify(tr[i], "order_error")

RestingOn(side) == {id \in 1..Len(orders) : orders[id].side = side /\ Resting(orders, id)}

\* C1: is_position is never true while order_id_ask and order_id_bid are both
\* empty.
C1_PositionHasOrderId ==
    ~(is_position /\ order_id_ask = EmptyId /\ order_id_bid = EmptyId)

\* the four events cancelling both sides appends after position k of the
\* trace: cancel ask, its notification, cancel bid, its notification
CancelledBothAfter(tr, k) ==
    /\ Len(tr) = k + 4
    /\ IsCall(tr[k + 1], "cancel") /\ tr[k + 1].side = "ask"
    /\ IsNotify(tr[k + 2], IF tr[k + 1].ok THEN "cancelled" ELSE "cancel_error")
    /\ IsCall(tr[k + 3], "cancel") /\ tr[k + 3].side = "bid"
    /\ IsNotify(tr[k + 4], IF tr[k + 3].ok THEN "cancelled" ELSE "cancel_error")

\* C2: in a cycle with a favourable verdict that began in position, a live
\* trade price different from the price recorded when the quote pair was
\* placed cancels both orders and clears is_position before anything is
\* submitted (the state just before lines 179-182).
C2_DriftExit ==
    (pc = "place" /\ start.is_position /\ anchor # NoPrice /\ new_price # NoPrice
        /\ new_price # anchor)
        => (~is_position /\ CancelledBothAfter(trace, Len(trace) - 4))

\* C3: at a cycle boundary, Flat means nothing rests at the exchange, Quoting
\* means exactly one ask and one bid rest and the bot holds their ids.
C3_StateMeaning ==
    pc = "top" =>
        IF is_position
        THEN /\ RestingOn("ask") = {order_id_ask}
             /\ RestingOn("bid") = {order_id_bid}
        ELSE RestingOn("ask") = {} /\ RestingOn("bid") = {}

\* C4: an order is pushed, and is_position turns true, only by the placement
\* step of a cycle whose verdict is favourable, with is_position false at that
\* point and update_prices having returned true.
C4_PlaceOnlyWhenFavorableAndFresh ==
    [][ ((Pushed(trace') /\ ~Pushed(trace)) \/ Len(orders') > Len(orders)
            \/ (is_position' /\ ~is_position))
        => (pc = "place" /\ verdict /\ ~is_position /\ refreshed' = "true") ]_vars

C4_Witness ==
    pc = "sleep" /\ HasCall(trace, "post_order") /\ is_position /\ ~start.is_position

\* C5: every step leaving Quoting (unfavourable verdict, or price drift, in
\* position) calls cancel for the ask, then for the bid whatever the ask's
\* outcome, notifies each failure, and ends with is_position false.
C5_ExitCancelsBoth ==
    [][ ((pc = "unfavorable" \/ (pc = "favorable" /\ new_price' # act_price))
            /\ is_position /\ pc' # "terminated")
        => (~is_position' /\ CancelledBothAfter(trace', Len(trace) + 1)) ]_vars

C5_Witness ==
    /\ pc = "sleep" /\ ~is_position /\ start.is_position
    /\ \E i \in 1..Len(trace) :
          IsCall(trace[i], "cancel") /\ trace[i].side = "ask" /\ ~trace[i].ok

\* C6: a cycle that begins in position, gets a favourable verdict and sees the
\* trade price unchanged calls neither post_order nor cancel and leaves
\* is_position, both order ids and both prices as they were.
C6_QuotingNoOp ==
    (pc = "sleep" /\ start.is_position /\ verdict /\ new_price = act_price)
        => /\ ~HasCall(trace, "post_order")
           /\ ~HasCall(trace, "cancel")
           /\ ~Pushed(trace)
           /\ Fields(Bot) = start

C6_Witness ==
    pc = "sleep" /\ start.is_position /\ verdict /\ new_price = act_price

\* the heartbeats a run without failed cycle has sent: one every
\* HeartbeatInterval seconds from the first cycle on
BeatsDue ==
    {t \in 0..Elapsed : /\ t % HeartbeatInterval = 0
                        /\ (t < Elapsed \/ pc # "top")}

\* C7 (amended): in a run at 1-second cadence with no failed cycle the
\* heartbeats are sent at 0, 60, 120, ... seconds, the first in the first
\* cycle: three in 125 seconds.
C7_HeartbeatFromFirstCycle ==
    (~failures /\ pc # "terminated") =>
        /\ Len(heartbeats) = Cardinality(BeatsDue)
        /\ \A i \in 1..Len(heartbeats) : heartbeats[i] = (i - 1) * HeartbeatInterval
        /\ (Elapsed = RunLength => Len(heartbeats) = 3)

C7_Witness ==
    ~failures /\ pc = "top" /\ Elapsed = RunLength /\ heartbeats = <<0, 60, 120>>

\* C7 as stated: after 125 seconds without failed cycle exactly two heartbeats
\* have been sent, at 60 and 120 seconds, none in the first cycle.
C7_TwoHeartbeats ==
    (~failures /\ pc = "top" /\ Elapsed = RunLength) => heartbeats = <<60, 120>>

\* C8: the handler of a failed cycle notifies, sleeps 10 seconds and goes back
\* to the top of the loop; main_loop ends only by an interrupt.
C8_CatchAll ==
    [][ /\ (pc = "except" /\ pc' # "terminated")
            => /\ trace' = Append(trace, Notify("loop_error"))
               /\ now' = now + ErrorBackoff
               /\ pc' = "top"
        /\ (pc' = "terminated" => interrupted') ]_vars

\* a cycle runs after a failed one
C8_Witness ==
    failures /\ pc = "status" /\ Elapsed >= ErrorBackoff

MetricsFail == ~snapshot.none /\ calculate_metrics(snapshot.rows, price_levels).raised

\* C9: get_market_status raises nothing, and when the snapshot is unavailable
\* or the metrics computation fails its verdict is unfavourable with an error
\* reason.
C9_EvaluationNeverRaises ==
    epc = "done" =>
        /\ ~status.raised
        /\ (snapshot.none \/ MetricsFail)
              => (~status.is_favorable /\ status.reason \in ErrorReasons)

C9_Witness ==
    epc = "done" /\ MetricsFail /\ ~status.is_favorable /\ status.reason = "Erreur"

\* C10: get_orderbook returns None whenever the fetch fails or the bid side or
\* the ask side is empty.
C10_NoOneSidedSnapshot ==
    (epc # "input" /\ (book.err \/ book.bids = <<>> \/ book.asks = <<>>))
        => snapshot.none

\* prices of one side of the raw book
BookPrices(levels) == {levels[i].price : i \in 1..Len(levels)}
\* the raw book has both sides and its best bid is not below its best ask
Crossed(bk) ==
    /\ ~bk.err /\ bk.bids # <<>> /\ bk.asks # <<>>
    /\ \E b \in BookPrices(bk.bids) :
          /\ \A q \in BookPrices(bk.bids) : q <= b
          /\ \E a \in BookPrices(bk.asks) :
                /\ \A q \in BookPrices(bk.asks) : a <= q
                /\ b >= a

\* C11: a snapshot whose best bid is not strictly below its best ask is never
\* evaluated as favourable.
C11_CrossedNeverFavorable ==
    (epc = "done" /\ Crossed(book)) => ~status.is_favorable

\* C12: the rules are tested in order and the first that holds decides: metrics
\* satisfying both the first rule (strong buy pressure) and the fourth (wide
\* spread with imbalance) give a favourable verdict with the first rule's
\* reason, and each later rule decides only when no earlier one holds.
C12_RuleCascadeOrder ==
    (epc = "done" /\ status.has_metrics) =>
        /\ (Rule1(metrics) /\ Rule4(metrics))
              => (status.is_favorable /\ status.reason = "Forte pression d'achat")
        /\ Rule1(metrics) => status.reason = "Forte pression d'achat"
        /\ (~Rule1(metrics) /\ Rule2(metrics))
              => status.reason = "Marche equilibre avec pression d'achat"
        /\ (~Rule1(metrics) /\ ~Rule2(metrics) /\ Rule3(metrics))
              => status.reason = "Fort desequilibre acheteur avec spread serre"
        /\ (~Rule1(metrics) /\ ~Rule2(metrics) /\ ~Rule3(metrics) /\ Rule4(metrics))
              => (~status.is_favorable /\ status.reason = "Spread large avec desequilibre")

C12_Witness ==
    epc = "done" /\ status.has_metrics /\ Rule1(metrics) /\ Rule4(metrics)

\* the price with exactly one price of the side below it / above it
SecondLowest(levels) ==
    CHOOSE p \in BookPrices(levels) :
        Cardinality({q \in BookPrices(levels) : q < p}) = 1
SecondHighest(levels) ==
    CHOOSE p \in BookPrices(levels) :
        Cardinality({q \in BookPrices(levels) : q > p}) = 1
TwoLevels(bk) == ~bk.err /\ Len(bk.bids) >= 2 /\ Len(bk.asks) >= 2

\* C13: after a placement step that fetched a book, every order it submitted
\* rests at the second-lowest ask (ask side) or the second-highest bid (bid
\* side) of that book; when the book has fewer than two levels on a side the
\* refresh fails and nothing is submitted.
C13_QuotesAtSecondBest ==
    (pc = "sleep" /\ refreshed # "none") =>
        IF TwoLevels(fetched)
        THEN /\ refreshed = "true"
             /\ episode = {id \in 1..Len(orders) :
                             \E i \in 1..Len(trace) :
                                IsCall(trace[i], "post_order") /\ trace[i].id = id}
             /\ \A id \in episode :
                   orders[id].price =
                       IF orders[id].side = "ask" THEN SecondLowest(fetched.asks)
                       ELSE SecondHighest(fetched.bids)
        ELSE /\ refreshed = "false"
             /\ ~HasCall(trace, "post_order")
             /\ ~Pushed(trace)

C13_Witness ==
    /\ pc = "sleep" /\ refreshed = "true" /\ ~start.is_position
    /\ \E i, j \in episode : orders[i].side = "ask" /\ orders[j].side = "bid"

C13_WitnessShortSide ==
    pc = "sleep" /\ refreshed = "false" /\ ~fetched.err /\ Len(fetched.asks) = 1

\* rows of one side of the snapshot, and the size at the side's best price
SideRows(rows, type) == {rows[i] : i \in {k \in 1..Len(rows) : rows[k].type = type}}
BestBidSize(rows) ==
    (CHOOSE r \in SideRows(rows, "bid") :
        \A o \in SideRows(rows, "bid") : o.price <= r.price).size
BestAskSize(rows) ==
    (CHOOSE r \in SideRows(rows, "ask") :
        \A o \in SideRows(rows, "ask") : o.price >= r.price).size
SameRatio(x, n, d) == x[1] * d = n * x[2]

\* C14: best_bid_concentration is the size of the highest-priced bid over the
\* near bid volume and best_ask_concentration the size of the lowest-priced
\* ask over the near ask volume, each 0 when its near volume is 0.
C14_ConcentrationUsesBestLevel ==
    (epc \in {"metrics", "done"} /\ ~snapshot.none /\ ~metrics.raised
        /\ SideRows(snapshot.rows, "bid") # {} /\ SideRows(snapshot.rows, "ask") # {}) =>
        /\ IF metrics.bid_volume > 0
           THEN SameRatio(metrics.best_bid_concentration,
                          BestBidSize(snapshot.rows), metrics.bid_volume)
           ELSE metrics.best_bid_concentration[1] = 0
        /\ IF metrics.ask_volume > 0
           THEN SameRatio(metrics.best_ask_concentration,
                          BestAskSize(snapshot.rows), metrics.ask_volume)
           ELSE metrics.best_ask_concentration[1] = 0

\* sum of the sizes of a set of rows (prices within a side are distinct)
RECURSIVE SizeOfRows(_)
SizeOfRows(rs) ==
    IF rs = {} THEN 0
    ELSE LET r == CHOOSE x \in rs : TRUE IN r.size + SizeOfRows(rs \ {r})

\* C15: cumulative_size runs from the best price outward: on a bid row it is
\* the sum of the bid sizes at prices at or above the row's price, on an ask
\* row the sum of the ask sizes at prices at or below the row's price.
C15_CumulativeFromBest ==
    (epc # "input" /\ ~snapshot.none) =>
        \A i \in 1..Len(snapshot.rows) :
            LET r == snapshot.rows[i]
            IN r.cumulative_size =
                 IF r.type = "bid"
                 THEN SizeOfRows({o \in SideRows(snapshot.rows, "bid") : o.price >= r.price})
                 ELSE SizeOfRows({o \in SideRows(snapshot.rows, "ask") : o.price <= r.price})

\* the ask half of C15, which the snapshot satisfies
C15_AskCumulativeFromBest ==
    (epc # "input" /\ ~snapshot.none) =>
        \A i \in 1..Len(snapshot.rows) :
            LET r == snapshot.rows[i]
            IN r.type = "ask" =>
                 r.cumulative_size =
                    SizeOfRows({o \in SideRows(snapshot.rows, "ask") : o.price <= r.price})

\* C16: on a side with fewer levels than price_levels the price pressure is
\* exactly 0 and computing it raises nothing, for the bids and for the asks.
C16_ShortSideZeroPressure ==
    (epc \in {"metrics", "done"} /\ ~snapshot.none) =>
        LET bids == RowsOfType(snapshot.rows, "bid")
            asks == RowsOfType(snapshot.rows, "ask")
        IN /\ Len(bids) < price_levels =>
                /\ _calculate_price_pressure(bids, FALSE, price_levels)
                      = [raised |-> FALSE, value |-> RZero]
                /\ metrics.bid_pressure = RZero
           /\ Len(asks) < price_levels =>
                /\ _calculate_price_pressure(asks, TRUE, price_levels)
                      = [raised |-> FALSE, value |-> RZero]
                /\ metrics.ask_pressure = RZero

\* two bid levels of different sizes against price_levels = 3, evaluated
C16_Witness ==
    /\ epc = "done" /\ ~snapshot.none /\ price_levels = 3
    /\ Len(RowsOfType(snapshot.rows, "bid")) = 2
    /\ Len(RowsOfType(snapshot.rows, "ask")) = 3
    /\ metrics.bid_pressure = RZero /\ metrics.ask_pressure # RZero

\* position i of the trace is order_pusher finding no last trade price
NoTradePriceAt(tr, i) ==
    IsCall(tr[i], "get_last_trade_price") /\ tr[i].side \in {"ask", "bid"} /\ ~tr[i].ok
\* what follows it: the sizer ends (returned tells how), the failure is
\* notified and post_order is not called for that side
SizerFailureAt(tr, i, returned) ==
    /\ Len(tr) >= i + 2
    /\ IsCall(tr[i + 1], "process_shares_size") /\ tr[i + 1].side = tr[i].side
    /\ tr[i + 1].ok = returned
    /\ IsNotify(tr[i + 2], "order_error")
    /\ \A j \in 1..Len(tr) : ~(IsCall(tr[j], "post_order") /\ tr[j].side = tr[i].side)
    /\ \A id \in episode : orders[id].side # tr[i].side

\* C17 as stated: with no last trade price at placement time the sizer returns
\* (no size), no order is submitted for that side, the failure is notified and
\* the cycle ends without a cycle-level exception.
C17_SizerReturnsNone ==
    /\ pc = "sleep" =>
          \A i \in 1..Len(trace) :
              NoTradePriceAt(trace, i) => SizerFailureAt(trace, i, TRUE)
    /\ pc = "except" => \A i \in 1..Len(trace) : ~NoTradePriceAt(trace, i)

\* C17 amended: with no last trade price at placement time the sizer raises,
\* order_pusher catches it, no order is submitted for that side, the failure
\* is notified and the cycle ends without a cycle-level exception.
C17_SizerRaisesNoOrder ==
    /\ pc = "sleep" =>
          \A i \in 1..Len(trace) :
              NoTradePriceAt(trace, i) => SizerFailureAt(trace, i, FALSE)
    /\ pc = "except" => \A i \in 1..Len(trace) : ~NoTradePriceAt(trace, i)

\* the ask is sized without a trade price, the bid with one and submitted
C17_Witness ==
    /\ pc = "sleep"
    /\ \E i \in 1..Len(trace) : NoTradePriceAt(trace, i) /\ trace[i].side = "ask"
    /\ \E j \in 1..Len(trace) :
          IsCall(trace[j], "post_order") /\ trace[j].side = "bid" /\ trace[j].ok

\* C18: every id passed to cancel is non-empty and is the id of an order
\* submitted by the latest placement step (the current Quoting episode), never
\* the id of an order of an earlier episode.  Stated where the cancellations
\* of the cycle are done and no placement has followed them.
C18_CancelOnlyCurrentEpisode ==
    (pc = "place" \/ (pc = "sleep" /\ ~verdict)) =>
        \A i \in 1..Len(trace) :
            IsCall(trace[i], "cancel") =>
                (trace[i].id # EmptyId /\ trace[i].id \in episode)

\* the empty-id half alone
C18_CancelNeverEmptyId ==
    \A i \in 1..Len(trace) : IsCall(trace[i], "cancel") => trace[i].id # EmptyId

\* the stale-id half alone: a cancelled order is not cancelled again in a
\* later cycle
C18_CancelNeverStaleId ==
    (pc = "place" \/ (pc = "sleep" /\ ~verdict)) =>
        \A i \in 1..Len(trace) :
            (IsCall(trace[i], "cancel") /\ trace[i].id # EmptyId)
                => trace[i].id \in episode

\* C19: when update_prices returns false, bid_price and ask_price are what they
\* were before the call (nothing else writes them, so what they were when the
\* cycle began).
C19_UpdatePricesAllOrNothing ==
    (pc = "sleep" /\ refreshed = "false") =>
        (bid_price = start.bid_price /\ ask_price = start.ask_price)

\* the ask half of C19, which update_prices satisfies
C19_AskPriceKept ==
    (pc = "sleep" /\ refreshed = "false") => ask_price = start.ask_price

\* C20: when the placement step submits both the ask and the bid, the two
\* orders carry the same size.
C20_PairSameSize ==
    (pc = "sleep" /\ refreshed = "true") =>
        \A i, j \in episode : orders[i].shares = orders[j].shares

=============================================================================
